---------------------------- MODULE Spec2Model ----------------------------
(***************************************************************************)
(* A model of the two probabilistic structures of the repository:          *)
(*   - BloomFilter  (src/task01.py): __init__, _get_hashes, add, check     *)
(*   - HyperLogLog  (src/task02.py): __init__, _get_alpha, add, _rho,      *)
(*                                   count                                 *)
(* The two structures never interact; SpecBloom drives the first, SpecHLL  *)
(* the second, and SpecHLLFull the second at p = 4 with one hash value per *)
(* register.                                                               *)
(***************************************************************************)
EXTENDS Integers, Sequences, FiniteSets, TLC

VARIABLES
    bfState,    \* "none" before BloomFilter(...), then "ok" or "failed"
    bfAttrs,    \* the instance's attribute dictionary (name -> value)
    bfErr,      \* the exception BloomFilter(...) raised, or "none"
    bfLast,     \* the last BloomFilter call: [op, item, result]
    hllState,   \* "none" before HyperLogLog(...), then "ok" or "failed"
    hllAttrs,   \* the instance's attribute dictionary (name -> value)
    hllErr,     \* the exception HyperLogLog(...) raised, or "none"
    hllLast     \* the last HyperLogLog call: [op] and p, rho or result

bfVars == <<bfState, bfAttrs, bfErr, bfLast>>
hllVars == <<hllState, hllAttrs, hllErr, hllLast>>
vars == <<bfState, bfAttrs, bfErr, bfLast, hllState, hllAttrs, hllErr, hllLast>>

---------------------------------------------------------------------------
(* Bounds of the model. *)

\* BloomFilter sizes tried at construction: 1..MaxSize (plus invalid ones)
MaxSize == 3
\* num_hashes tried at construction: 1..MaxNumHashes (plus invalid ones)
MaxNumHashes == 3
\* the two base hashes of an item range over 0..MaxBaseHash each
MaxBaseHash == 3

---------------------------------------------------------------------------
(* Python objects. *)

\* An object with no attribute set yet.
NoAttrs == [a \in {} |-> 0]

\* self.<name> = val
SetAttr(obj, name, val) ==
    [a \in (DOMAIN obj) \cup {name} |-> IF a = name THEN val ELSE obj[a]]

\* Python values handed to a constructor: a type tag and a number.  A bool
\* is an int in Python (True == 1, False == 0); the float stands for 2.0 and
\* the str for "3".
PyInt(n) == [type |-> "int", val |-> n]
PyTrue == [type |-> "bool", val |-> 1]
PyFalse == [type |-> "bool", val |-> 0]
PyFloat == [type |-> "float", val |-> 2]
PyStr == [type |-> "str", val |-> 3]
PyNone == [type |-> "NoneType", val |-> 0]

\* isinstance(v, int): bool is a subclass of int.
IsInstanceInt(v) == v.type \in {"int", "bool"}

---------------------------------------------------------------------------
(* BloomFilter, src/task01.py *)

\* Items handed to add/check.  hashlib.md5 and hashlib.sha256 are library
\* functions of the item's text: a non-null item is modelled by the pair of
\* base hashes (h1, h2) they give it.
None == [null |-> TRUE, h1 |-> 0, h2 |-> 0]
Item(a, b) == [null |-> FALSE, h1 |-> a, h2 |-> b]
NonNullItems == {Item(a, b) : a \in 0..MaxBaseHash, b \in 0..MaxBaseHash}
Items == NonNullItems \cup {None}

\* The arguments tried for size and for num_hashes.
SizeArgs ==
    {PyInt(n) : n \in -1..MaxSize} \cup {PyTrue, PyFalse, PyFloat, PyStr, PyNone}
NumHashesArgs ==
    {PyInt(n) : n \in -1..MaxNumHashes} \cup {PyTrue, PyFalse, PyFloat, PyStr, PyNone}

\* [0] * n
Zeros(n) == [i \in 1..n |-> 0]

\* A variant of __init__ that stores size before it validates num_hashes.
BloomInitOutcomeStoresEarly(size, num_hashes) ==
    IF ~(IsInstanceInt(size) /\ size.val > 0)
    THEN [err |-> "ValueError", attrs |-> NoAttrs]
    ELSE IF ~(IsInstanceInt(num_hashes) /\ num_hashes.val > 0)
    THEN [err |-> "ValueError", attrs |-> SetAttr(NoAttrs, "size", size.val)]
    ELSE LET a1 == SetAttr(NoAttrs, "size", size.val)
             a2 == SetAttr(a1, "num_hashes", num_hashes.val)
             a3 == SetAttr(a2, "bit_array", Zeros(size.val))
         IN  [err |-> "none", attrs |-> a3]

\* BloomFilter.__init__: the outcome [err, attrs] of the whole constructor.
BloomInitOutcome(size, num_hashes) ==
    IF ~(IsInstanceInt(size) /\ size.val > 0)
    THEN [err |-> "ValueError", attrs |-> NoAttrs]
    ELSE IF ~(IsInstanceInt(num_hashes) /\ num_hashes.val > 0)
    THEN [err |-> "ValueError", attrs |-> NoAttrs]
    ELSE LET a1 == SetAttr(NoAttrs, "size", size.val)
             a2 == SetAttr(a1, "num_hashes", num_hashes.val)
             a3 == SetAttr(a2, "bit_array", Zeros(size.val))
         IN  [err |-> "none", attrs |-> a3]

\* combined_hash = (hash1 + i * hash2) % self.size
CombinedHash(self, item, i) == (item.h1 + i * item.h2) % self.size

\* for i in range(self.num_hashes): hashes.append(combined_hash)
RECURSIVE HashLoop(_, _, _, _)
HashLoop(self, item, i, hashes) ==
    IF i >= self.num_hashes THEN hashes
    ELSE HashLoop(self, item, i + 1, Append(hashes, CombinedHash(self, item, i)))

\* BloomFilter._get_hashes: the list of indices (0-based, as in the code).
GetHashes(self, item) ==
    IF item.null THEN <<>> ELSE HashLoop(self, item, 0, <<>>)

\* A variant of add's loop that stops one index short.
SetBitsSkipLast(bits, indices) ==
    [c \in 1..Len(bits) |->
        IF \E k \in 1..(Len(indices) - 1) : indices[k] + 1 = c THEN 1 ELSE bits[c]]

\* A variant of add's loop that writes one cell too far (wrapping around).
SetBitsOffByOne(bits, indices) ==
    [c \in 1..Len(bits) |->
        IF \E k \in 1..Len(indices) : ((indices[k] + 1) % Len(bits)) + 1 = c
        THEN 1 ELSE bits[c]]

\* for index in indices: self.bit_array[index] = 1
\* (Python's list is 0-based: cell index is bit_array[index + 1] here)
RECURSIVE SetBits(_, _)
SetBits(bits, indices) ==
    IF indices = <<>> THEN bits
    ELSE SetBits([bits EXCEPT ![Head(indices) + 1] = 1], Tail(indices))

\* BloomFilter.add: the bit_array after the call.
AddBits(self, item) == SetBits(self.bit_array, GetHashes(self, item))

\* A variant of check's loop that is satisfied by any one set bit.
CheckLoopAny(bits, indices) ==
    \E k \in 1..Len(indices) : bits[indices[k] + 1] = 1

\* the loop of check: False at the first index whose bit is 0, else True
RECURSIVE CheckLoop(_, _)
CheckLoop(bits, indices) ==
    IF indices = <<>> THEN TRUE
    ELSE IF bits[Head(indices) + 1] = 0 THEN FALSE
    ELSE CheckLoop(bits, Tail(indices))

\* A variant of check without the guard for None.
CheckNoNullGuard(self, item) ==
    \A k \in 1..Len(GetHashes(self, item)) :
        self.bit_array[GetHashes(self, item)[k] + 1] = 1

\* BloomFilter.check
Check(self, item) ==
    LET indices == GetHashes(self, item)
    IN  IF indices = <<>> /\ item.null THEN FALSE
        ELSE CheckLoop(self.bit_array, indices)

\* what a call returns, as Python prints it
PyBool(b) == IF b THEN "True" ELSE "False"

BloomConstruct(size, num_hashes) ==
    /\ bfState = "none"
    /\ LET out == BloomInitOutcome(size, num_hashes)
       IN  /\ bfState' = (IF out.err = "none" THEN "ok" ELSE "failed")
           /\ bfAttrs' = out.attrs
           /\ bfErr' = out.err
    /\ bfLast' = [op |-> "init", item |-> None, result |-> "None",
                  args |-> <<size, num_hashes>>]
    /\ UNCHANGED hllVars

BloomAdd(item) ==
    /\ bfState = "ok"
    /\ bfAttrs' = [bfAttrs EXCEPT !["bit_array"] = AddBits(bfAttrs, item)]
    /\ bfLast' = [op |-> "add", item |-> item, result |-> "None"]
    /\ UNCHANGED <<bfState, bfErr>>
    /\ UNCHANGED hllVars

BloomCheck(item) ==
    /\ bfState = "ok"
    /\ bfLast' = [op |-> "check", item |-> item, result |-> PyBool(Check(bfAttrs, item))]
    /\ UNCHANGED <<bfState, bfAttrs, bfErr>>
    /\ UNCHANGED hllVars

BloomNext ==
    \/ \E size \in SizeArgs, num_hashes \in NumHashesArgs : BloomConstruct(size, num_hashes)
    \/ \E item \in Items : BloomAdd(item)
    \/ \E item \in Items : BloomCheck(item)

\* Nothing is constructed yet.
Init ==
    /\ bfState = "none"
    /\ bfAttrs = NoAttrs
    /\ bfErr = "none"
    /\ bfLast = [op |-> "none", item |-> None, result |-> "None"]
    /\ hllState = "none"
    /\ hllAttrs = NoAttrs
    /\ hllErr = "none"
    /\ hllLast = [op |-> "none"]

SpecBloom == Init /\ [][BloomNext]_vars

---------------------------------------------------------------------------
(* Exact arithmetic for count().  TLC's integers are 32 bits wide, and       *)
(* count() compares quantities up to 2^80, so naturals are kept as           *)
(* sequences of limbs, least significant first, no leading zero limb.        *)

LimbBits == 12
LimbBase == 2 ^ LimbBits

RECURSIVE BigFromInt(_)
BigFromInt(n) ==
    IF n = 0 THEN <<>> ELSE <<n % LimbBase>> \o BigFromInt(n \div LimbBase)

\* a * LimbBase
BigShift(a) == IF a = <<>> THEN <<>> ELSE <<0>> \o a

RECURSIVE BigAddCarry(_, _, _)
BigAddCarry(a, b, carry) ==
    IF a = <<>> /\ b = <<>> THEN BigFromInt(carry)
    ELSE LET x == IF a = <<>> THEN 0 ELSE Head(a)
             y == IF b = <<>> THEN 0 ELSE Head(b)
             t == x + y + carry
             ra == IF a = <<>> THEN <<>> ELSE Tail(a)
             rb == IF b = <<>> THEN <<>> ELSE Tail(b)
         IN  <<t % LimbBase>> \o BigAddCarry(ra, rb, t \div LimbBase)

BigAdd(a, b) == BigAddCarry(a, b, 0)

\* a * c for one limb c
RECURSIVE BigMulLimb(_, _, _)
BigMulLimb(a, c, carry) ==
    IF c = 0 THEN <<>>
    ELSE IF a = <<>> THEN BigFromInt(carry)
    ELSE LET t == Head(a) * c + carry
         IN  <<t % LimbBase>> \o BigMulLimb(Tail(a), c, t \div LimbBase)

RECURSIVE BigMul(_, _)
BigMul(a, b) ==
    IF b = <<>> THEN <<>>
    ELSE BigAdd(BigMulLimb(a, Head(b), 0), BigShift(BigMul(a, Tail(b))))

\* a < b, comparing from the most significant limb
RECURSIVE BigLessFrom(_, _, _)
BigLessFrom(a, b, k) ==
    IF k = 0 THEN FALSE
    ELSE IF a[k] # b[k] THEN a[k] < b[k]
    ELSE BigLessFrom(a, b, k - 1)

BigLess(a, b) ==
    IF Len(a) # Len(b) THEN Len(a) < Len(b) ELSE BigLessFrom(a, b, Len(a))

BigLeq(a, b) == ~BigLess(b, a)

\* 2 ** k
BigPow2(k) ==
    [i \in 1..((k \div LimbBits) + 1) |->
        IF i = (k \div LimbBits) + 1 THEN 2 ^ (k % LimbBits) ELSE 0]

---------------------------------------------------------------------------
(* HyperLogLog, src/task02.py *)

\* mmh3.hash(..., signed=False) is a 32-bit unsigned value
HashWidth == 32

\* Bounds of the hash values tried under SpecHLL.
\* precisions tried at construction: -1..MaxPrecision
MaxPrecision == 4
\* low bits of the hash values tried: 0..MaxBucket
MaxBucket == 1
\* bits of the hash values tried from bit MaxPrecision upward: 0..MaxResidual
MaxResidual == 2

\* A 32-bit unsigned value x is kept as [top, low] with x = top * 2^31 + low,
\* top its bit 31 and low its bits 0..30 (TLC's integers end at 2^31 - 1).
Word(n) == [top |-> 0, low |-> n]
TopBitOnly == [top |-> 1, low |-> 0]
AllOnes == [top |-> 1, low |-> 2147483647]

\* a & b for naturals below 2^31
RECURSIVE AndInt(_, _)
AndInt(a, b) ==
    IF a = 0 \/ b = 0 THEN 0
    ELSE (a % 2) * (b % 2) + 2 * AndInt(a \div 2, b \div 2)

\* x >> 1
ShiftRight1(x) == [top |-> 0, low |-> (x.low \div 2) + x.top * (2 ^ 30)]

\* x >> n
RECURSIVE ShiftRight(_, _)
ShiftRight(x, n) == IF n = 0 THEN x ELSE ShiftRight(ShiftRight1(x), n - 1)

\* The hash values mmh3 may give the items: small ones, ones with residual
\* bits, the one with only the top bit set, and the one with every bit set.
HashValues ==
    {Word(j + (2 ^ MaxPrecision) * w) : j \in 0..MaxBucket, w \in 0..MaxResidual}
        \cup {TopBitOnly, AllOnes}

\* The hash values 0..15: at p = 4 one per register, each with residual 0.
FullHashes == {Word(n) : n \in 0..15}

Precisions == -1..MaxPrecision

\* HyperLogLog._get_alpha, as the fraction num/den
\* (0.7213 / (1 + 1.079 / m) = 7213 m / (10000 m + 10790))
GetAlpha(m) ==
    IF m = 16 THEN [num |-> 673, den |-> 1000]
    ELSE IF m = 32 THEN [num |-> 697, den |-> 1000]
    ELSE IF m = 64 THEN [num |-> 709, den |-> 1000]
    ELSE [num |-> 7213 * m, den |-> 10000 * m + 10790]

\* HyperLogLog.__init__: the outcome [err, attrs] of the whole constructor.
\* 1 << p raises ValueError (negative shift count) for p < 0; nothing else
\* in the constructor tests p.
HLLInitOutcome(p) ==
    LET a1 == SetAttr(NoAttrs, "p", p)
    IN  IF p < 0 THEN [err |-> "ValueError", attrs |-> a1]
        ELSE LET a2 == SetAttr(a1, "m", 2 ^ p)
                 a3 == SetAttr(a2, "registers", Zeros(a2.m))
                 a4 == SetAttr(a3, "alpha", GetAlpha(a3.m))
             IN  [err |-> "none", attrs |-> a4]

\* the loop of _rho
RECURSIVE RhoLoop(_, _)
RhoLoop(w, rho) ==
    IF w.low % 2 # 0 THEN rho ELSE RhoLoop(ShiftRight1(w), rho + 1)

\* A variant of _rho that counts positions from 0.
RhoZeroBased(self, w) ==
    IF w = Word(0) THEN HashWidth - self.p + 1 ELSE RhoLoop(w, 0)

\* HyperLogLog._rho
Rho(self, w) ==
    IF w = Word(0) THEN HashWidth - self.p + 1 ELSE RhoLoop(w, 1)

\* A variant of max that adds.
MaxAdds(a, b) == a + b

\* max(a, b)
Max(a, b) == IF a >= b THEN a ELSE b

\* j = x & (self.m - 1)
\* (self.m - 1 is below 2^31, so bit 31 of x is masked out)
BucketIndex(self, x) == AndInt(x.low, self.m - 1)

\* A variant of add that overwrites the register.
AddRegistersOverwrite(self, x) ==
    [self.registers EXCEPT ![BucketIndex(self, x) + 1] = Rho(self, ShiftRight(x, self.p))]

\* HyperLogLog.add: the registers after the call, x the item's hash.
\* (Python's list is 0-based: registers[j] is registers[j + 1] here)
AddRegisters(self, x) ==
    LET j == BucketIndex(self, x)
        w == ShiftRight(x, self.p)
    IN  [self.registers EXCEPT ![j + 1] = Max(self.registers[j + 1], Rho(self, w))]

\* Z is kept as the natural Z * 2 ** ZScale; no rank exceeds ZScale.
ZScale == HashWidth + 1

\* the part of the term 2 ** (ZScale - r) that falls into limb i
LimbTerm(r, i) ==
    IF (ZScale - r) \div LimbBits = i THEN 2 ^ ((ZScale - r) % LimbBits) ELSE 0

\* the sum of LimbTerm over registers[lo..hi]
RECURSIVE LimbSum(_, _, _, _)
LimbSum(registers, i, lo, hi) ==
    IF lo > hi THEN 0
    ELSE IF lo = hi THEN LimbTerm(registers[lo], i)
    ELSE LET mid == (lo + hi) \div 2
         IN  LimbSum(registers, i, lo, mid) + LimbSum(registers, i, mid + 1, hi)

\* limbs with carries propagated and leading zero limbs dropped
RECURSIVE BigNormalize(_, _)
BigNormalize(raw, carry) ==
    IF raw = <<>> THEN BigFromInt(carry)
    ELSE LET t == Head(raw) + carry
             rest == BigNormalize(Tail(raw), t \div LimbBase)
         IN  IF t % LimbBase = 0 /\ rest = <<>> THEN <<>> ELSE <<t % LimbBase>> \o rest

\* sum(2 ** -r for r in self.registers), times 2 ** ZScale: the terms are
\* added limb by limb (equal ranks give equal terms)
SumPow(registers) ==
    BigNormalize([i \in 1..((ZScale \div LimbBits) + 1) |->
                      LimbSum(registers, i - 1, 1, Len(registers))], 0)

\* self.registers.count(0)
CountZeros(registers) == Cardinality({k \in 1..Len(registers) : registers[k] = 0})

\* HyperLogLog.count: what the call does, [error, kind, Z, V].  The value
\* returned is alpha m^2 / Z (kind "raw"), m ln(m / V) (kind "linear") or
\* -2^32 ln(1 - E / 2^32) with E = alpha m^2 / Z (kind "large"); math.log
\* raises ValueError when its argument is not positive.
\*   E = EN / ED with EN = alpha.num m^2 2^ZScale and ED = alpha.den Z 2^ZScale
\*   E <= 5 m / 2      iff  2 EN <= 5 m ED
\*   E > (1/30) 2^32   iff  30 EN > 2^32 ED
\*   1 - E / 2^32 <= 0 iff  EN >= 2^32 ED
\* After the small-range correction E = m ln(m / V) <= m p, which is below
\* (1/30) 2^32 whenever 30 m p <= 2^32.
Count(self) ==
    LET m == self.m
        Zs == SumPow(self.registers)
        EN == BigMul(BigMul(BigFromInt(self.alpha.num), BigMul(BigFromInt(m), BigFromInt(m))),
                     BigPow2(ZScale))
        ED == BigMul(BigFromInt(self.alpha.den), Zs)
        V == CountZeros(self.registers)
        two32 == BigPow2(HashWidth)
        small == V > 0 /\ BigLeq(BigMulLimb(EN, 2, 0), BigMul(BigFromInt(5 * m), ED))
        large == BigLess(BigMul(two32, ED), BigMulLimb(EN, 30, 0))
        domainError == BigLeq(BigMul(two32, ED), EN)
    IN  CASE small /\ BigLeq(BigFromInt(30 * m * self.p), two32) ->
                [error |-> "none", kind |-> "linear", Z |-> Zs, V |-> V]
          [] ~small /\ ~large ->
                [error |-> "none", kind |-> "raw", Z |-> Zs, V |-> V]
          [] ~small /\ large /\ ~domainError ->
                [error |-> "none", kind |-> "large", Z |-> Zs, V |-> V]
          [] ~small /\ large /\ domainError ->
                [error |-> "ValueError", kind |-> "large", Z |-> Zs, V |-> V]

HLLConstruct(p) ==
    /\ hllState = "none"
    /\ LET out == HLLInitOutcome(p)
       IN  /\ hllState' = (IF out.err = "none" THEN "ok" ELSE "failed")
           /\ hllAttrs' = out.attrs
           /\ hllErr' = out.err
    /\ hllLast' = [op |-> "init", p |-> p]
    /\ UNCHANGED bfVars

HLLAdd(x) ==
    /\ hllState = "ok"
    /\ hllAttrs' = [hllAttrs EXCEPT !["registers"] = AddRegisters(hllAttrs, x)]
    /\ hllLast' = [op |-> "add", rho |-> Rho(hllAttrs, ShiftRight(x, hllAttrs.p))]
    /\ UNCHANGED <<hllState, hllErr>>
    /\ UNCHANGED bfVars

HLLCount ==
    /\ hllState = "ok"
    /\ hllLast' = [op |-> "count", result |-> Count(hllAttrs)]
    /\ UNCHANGED <<hllState, hllAttrs, hllErr>>
    /\ UNCHANGED bfVars

HLLNext ==
    \/ \E p \in Precisions : HLLConstruct(p)
    \/ \E x \in HashValues : HLLAdd(x)
    \/ HLLCount

SpecHLL == Init /\ [][HLLNext]_vars

\* The estimator at p = 4 fed the hash values 0..15.
HLLFullNext ==
    \/ HLLConstruct(4)
    \/ \E x \in FullHashes : HLLAdd(x)
    \/ HLLCount

SpecHLLFull == Init /\ [][HLLFullNext]_vars

---------------------------------------------------------------------------
(* Properties of BloomFilter, checked under SpecBloom. *)

\* the cells (0-based) the formula index_i = (h1 + i*h2) mod size names
DerivedIndices(item) ==
    {(item.h1 + i * item.h2) % bfAttrs.size : i \in 0..(bfAttrs.num_hashes - 1)}

\* every derived cell of the item is 1 in the bit array bits
AllDerivedSet(bits, item) == \A c \in DerivedIndices(item) : bits[c + 1] = 1

\* C1 (no false negatives): right after add(x) for a non-null x, check(x) is
\* True; and no later call (add or check, on any item) turns a True answer
\* of check into False, so check(x) is True in every later state.
C1_NoFalseNegatives ==
    /\ [](bfLast.op = "add" /\ ~bfLast.item.null => Check(bfAttrs, bfLast.item))
    /\ [][bfState = "ok" =>
            \A x \in NonNullItems : Check(bfAttrs, x) => Check(bfAttrs', x)]_vars

\* C1's case: an item with several distinct cells was just added, and an
\* item added earlier, sharing no cell with it, still checks True.
C1_Witness ==
    /\ bfState = "ok"
    /\ bfLast.op = "add"
    /\ ~bfLast.item.null
    /\ Cardinality(DerivedIndices(bfLast.item)) >= 2
    /\ \E y \in NonNullItems :
          /\ DerivedIndices(y) \cap DerivedIndices(bfLast.item) = {}
          /\ Check(bfAttrs, y)

\* C2: for a non-null item, check returns True iff every cell
\* (h1 + i*h2) mod size, i in 0..num_hashes-1, is 1; _get_hashes returns
\* exactly these num_hashes indices, each in 0..size-1; a filter whose bits
\* are all 0 (a fresh one) answers False; and the value a check call
\* returned is that answer.
C2_CheckIffAllBitsSet ==
    bfState = "ok" =>
        /\ \A item \in NonNullItems :
              LET hashes == GetHashes(bfAttrs, item)
              IN  /\ Check(bfAttrs, item) = AllDerivedSet(bfAttrs.bit_array, item)
                  /\ Len(hashes) = bfAttrs.num_hashes
                  /\ \A k \in 1..Len(hashes) :
                        /\ hashes[k] \in 0..(bfAttrs.size - 1)
                        /\ hashes[k] = (item.h1 + (k - 1) * item.h2) % bfAttrs.size
                  /\ (bfAttrs.bit_array = Zeros(bfAttrs.size) => ~Check(bfAttrs, item))
        /\ (bfLast.op = "check" /\ ~bfLast.item.null =>
              bfLast.result = PyBool(AllDerivedSet(bfAttrs.bit_array, bfLast.item)))

\* C2's case: check returned True for a non-null item with several cells
\* while another cell is still 0, and some other item has one of its cells
\* set but not all (check answers False there).
C2_Witness ==
    /\ bfState = "ok"
    /\ bfLast.op = "check"
    /\ ~bfLast.item.null
    /\ bfLast.result = "True"
    /\ Cardinality(DerivedIndices(bfLast.item)) >= 2
    /\ \E y \in NonNullItems :
          /\ ~Check(bfAttrs, y)
          /\ \E c \in DerivedIndices(y) : bfAttrs.bit_array[c + 1] = 1

\* C3: len(bit_array) = size and every cell is 0 or 1 in every state; in
\* every step the length stays, no cell goes from 1 to 0, a check call
\* changes no attribute, and an add call changes only cells at the item's
\* derived indices (and neither size nor num_hashes).
C3_BitArrayInvariant ==
    /\ [](bfState = "ok" =>
            /\ Len(bfAttrs.bit_array) = bfAttrs.size
            /\ \A c \in 1..Len(bfAttrs.bit_array) : bfAttrs.bit_array[c] \in {0, 1})
    /\ [][bfState = "ok" =>
            /\ Len(bfAttrs'.bit_array) = Len(bfAttrs.bit_array)
            /\ bfAttrs'.size = bfAttrs.size
            /\ bfAttrs'.num_hashes = bfAttrs.num_hashes
            /\ \A c \in 1..Len(bfAttrs.bit_array) :
                  bfAttrs.bit_array[c] = 1 => bfAttrs'.bit_array[c] = 1
            /\ (bfLast'.op = "check" => bfAttrs' = bfAttrs)
            /\ (bfLast'.op = "add" =>
                  \A c \in 1..Len(bfAttrs.bit_array) :
                      bfAttrs'.bit_array[c] # bfAttrs.bit_array[c] =>
                          /\ ~bfLast'.item.null
                          /\ (c - 1) \in DerivedIndices(bfLast'.item))]_vars

\* C3's case: an add has set some cells of a filter of at least 3 cells, and
\* left others 0.
C3_Witness ==
    /\ bfState = "ok"
    /\ bfLast.op = "add"
    /\ ~bfLast.item.null
    /\ bfAttrs.size >= 3
    /\ \E c \in 1..bfAttrs.size : bfAttrs.bit_array[c] = 0
    /\ \E c \in 1..bfAttrs.size : bfAttrs.bit_array[c] = 1

\* C8 (null policy): in every state of a constructed filter add(None) would
\* leave bit_array as it is and check(None) would answer False; a check(None)
\* call returned False, and an add(None) call changed nothing.
C8_NullPolicy ==
    /\ [](bfState = "ok" =>
            /\ AddBits(bfAttrs, None) = bfAttrs.bit_array
            /\ ~Check(bfAttrs, None)
            /\ (bfLast.op = "check" /\ bfLast.item.null => bfLast.result = "False"))
    /\ [][bfLast'.op = "add" /\ bfLast'.item.null => bfAttrs' = bfAttrs]_vars

\* C8's case: check(None) was called on a filter of several cells whose bits
\* are all 1.
C8_Witness ==
    /\ bfState = "ok"
    /\ bfLast.op = "check"
    /\ bfLast.item.null
    /\ bfAttrs.size >= 2
    /\ \A c \in 1..bfAttrs.size : bfAttrs.bit_array[c] = 1

\* a positive integer, as Python sees it (isinstance(v, int) and v > 0: the
\* bool True is the integer 1)
IsPositiveInteger(v) == v.type \in {"int", "bool"} /\ v.val >= 1

\* C9: BloomFilter(size, num_hashes) raises ValueError iff one of the two
\* arguments is not a positive integer, and then no attribute is set; else it
\* succeeds with size, num_hashes and an all-zero bit_array of length size.
C9_ConstructValidation ==
    bfLast.op = "init" =>
        LET size == bfLast.args[1]
            num_hashes == bfLast.args[2]
        IN  IF IsPositiveInteger(size) /\ IsPositiveInteger(num_hashes)
            THEN /\ bfState = "ok"
                 /\ bfErr = "none"
                 /\ DOMAIN bfAttrs = {"size", "num_hashes", "bit_array"}
                 /\ bfAttrs.size = size.val
                 /\ bfAttrs.num_hashes = num_hashes.val
                 /\ Len(bfAttrs.bit_array) = size.val
                 /\ \A c \in 1..size.val : bfAttrs.bit_array[c] = 0
            ELSE /\ bfState = "failed"
                 /\ bfErr = "ValueError"
                 /\ DOMAIN bfAttrs = {}

\* C9's case: the size is valid and num_hashes is not (the second test of
\* the constructor fails).
C9_Witness ==
    /\ bfLast.op = "init"
    /\ IsPositiveInteger(bfLast.args[1])
    /\ bfLast.args[1].val >= 2
    /\ ~IsPositiveInteger(bfLast.args[2])
    /\ bfState = "failed"

---------------------------------------------------------------------------
(* Properties of HyperLogLog, checked under SpecHLL (C6: SpecHLLFull). *)

\* bit i (0 the least significant) of the 32-bit value x
BitOf(x, i) == IF i = HashWidth - 1 THEN x.top ELSE (x.low \div (2 ^ i)) % 2

\* the value of the low p bits of x
LowBits(x, p) == x.low % (2 ^ p)

\* the 1-based position, among the bits p..31 of x, of the lowest bit set;
\* 32 - p + 1 when none is set
LsbRank(x, p) ==
    IF \E i \in p..(HashWidth - 1) : BitOf(x, i) = 1
    THEN (CHOOSE i \in p..(HashWidth - 1) :
              BitOf(x, i) = 1 /\ \A k \in p..(i - 1) : BitOf(x, k) = 0) - p + 1
    ELSE HashWidth - p + 1

\* the larger of two numbers
Larger(a, b) == CHOOSE c \in {a, b} : c >= a /\ c >= b

\* C4: len(registers) is 2^p in every state; in every step the length stays
\* and no register decreases; count changes no attribute; an add of an item
\* with hash x sets register j = (low p bits of x) to the larger of its old
\* value and the rank of the remaining high bits, and leaves every other
\* register as it was.
C4_AddFrame ==
    /\ [](hllState = "ok" => Len(hllAttrs.registers) = 2 ^ hllAttrs.p)
    /\ [][hllState = "ok" =>
            /\ Len(hllAttrs'.registers) = Len(hllAttrs.registers)
            /\ \A k \in 1..Len(hllAttrs.registers) :
                  hllAttrs'.registers[k] >= hllAttrs.registers[k]
            /\ (hllLast'.op = "count" => hllAttrs' = hllAttrs)
            /\ \A x \in HashValues :
                  HLLAdd(x) =>
                      \A k \in 1..Len(hllAttrs.registers) :
                          hllAttrs'.registers[k] =
                              IF k = LowBits(x, hllAttrs.p) + 1
                              THEN Larger(hllAttrs.registers[k], LsbRank(x, hllAttrs.p))
                              ELSE hllAttrs.registers[k]]_vars

\* C4's case: at p >= 4 an add has just returned, one register holds the
\* sentinel rank, another a rank from a set bit, and a third is still 0.
C4_Witness ==
    /\ hllState = "ok"
    /\ hllAttrs.p >= 4
    /\ hllLast.op = "add"
    /\ \E k \in 1..hllAttrs.m : hllAttrs.registers[k] = HashWidth - hllAttrs.p + 1
    /\ \E k \in 1..hllAttrs.m : hllAttrs.registers[k] \in 1..(HashWidth - hllAttrs.p)
    /\ \E k \in 1..hllAttrs.m : hllAttrs.registers[k] = 0

\* a further add of the item with hash x would leave every register as it is
Absorbed(self, x) == AddRegisters(self, x) = self.registers

\* C5 (idempotence): right after add(x), a further add(x) leaves every
\* register unchanged; no later call undoes that (so it holds for any number
\* of further add(x), after any calls in between); count changes no
\* attribute and returns the value the attributes determine, so count()
\* after the further add(x) calls, and repeated count() calls, return the
\* same value.
C5_Idempotence ==
    /\ [][\A x \in HashValues : HLLAdd(x) => Absorbed(hllAttrs', x)]_vars
    /\ [][hllState = "ok" =>
            \A x \in HashValues : Absorbed(hllAttrs, x) => Absorbed(hllAttrs', x)]_vars
    /\ [][hllLast'.op = "count" =>
            /\ hllAttrs' = hllAttrs
            /\ hllLast'.result = Count(hllAttrs')]_vars

\* C5's case: count() has returned for registers that absorb one item of a
\* bucket and would still be raised by another item of the same bucket.
C5_Witness ==
    /\ hllState = "ok"
    /\ hllAttrs.p >= 4
    /\ hllLast.op = "count"
    /\ hllLast.result.error = "none"
    /\ \E x, y \in HashValues :
          /\ BucketIndex(hllAttrs, x) = BucketIndex(hllAttrs, y)
          /\ hllAttrs.registers[BucketIndex(hllAttrs, x) + 1] > 0
          /\ Absorbed(hllAttrs, x)
          /\ ~Absorbed(hllAttrs, y)

\* C6 as claimed: for p in 4..16, count() never raises, in any state the
\* add calls reach and for any count() call made.
C6_CountNeverRaises ==
    hllState = "ok" /\ hllAttrs.p \in 4..16 =>
        /\ Count(hllAttrs).error = "none"
        /\ (hllLast.op = "count" => hllLast.result.error = "none")

\* C7 as claimed: a construction with p <= 0 fails with an error before the
\* registers are allocated, and no instance has p <= 0.
C7_NonPositivePrecisionRejected ==
    /\ (hllLast.op = "init" /\ hllLast.p <= 0 =>
          /\ hllState = "failed"
          /\ hllErr # "none"
          /\ "registers" \notin DOMAIN hllAttrs)
    /\ (hllState = "ok" => hllAttrs.p > 0)

\* C10: for p in 4..16, _rho of the residual of every hash value is the
\* 1-based position of the residual's lowest set bit, or 32 - p + 1 for the
\* residual 0; it never exceeds 32 - p + 1, and every register holds a value
\* in 0..32-p+1.
C10_RhoAndRegisterRange ==
    hllState = "ok" /\ hllAttrs.p \in 4..16 =>
        /\ \A x \in HashValues \cup FullHashes :
              /\ Rho(hllAttrs, ShiftRight(x, hllAttrs.p)) = LsbRank(x, hllAttrs.p)
              /\ Rho(hllAttrs, ShiftRight(x, hllAttrs.p)) \in 1..(32 - hllAttrs.p + 1)
              /\ (ShiftRight(x, hllAttrs.p) = Word(0) <=>
                    Rho(hllAttrs, ShiftRight(x, hllAttrs.p)) = 32 - hllAttrs.p + 1)
        /\ \A k \in 1..Len(hllAttrs.registers) :
              hllAttrs.registers[k] \in 0..(32 - hllAttrs.p + 1)
        /\ (hllLast.op = "add" => hllLast.rho \in 1..(32 - hllAttrs.p + 1))

\* C10's case: an add has just computed the sentinel rank 32 - p + 1 (the
\* residual was 0) while other registers hold rank 32 - p (only the top bit
\* of the hash set) and rank 1.
C10_Witness ==
    /\ hllState = "ok"
    /\ hllAttrs.p \in 4..16
    /\ hllLast.op = "add"
    /\ hllLast.rho = 32 - hllAttrs.p + 1
    /\ \E k \in 1..hllAttrs.m : hllAttrs.registers[k] = 32 - hllAttrs.p
    /\ \E k \in 1..hllAttrs.m : hllAttrs.registers[k] = 1

=============================================================================
